---- MODULE Spec2Model ----
(***************************************************************************)
(* Module resolution, linking and legacy require of the k6 js/modules      *)
(* package: ModuleResolver (cache, reverse map), ModuleSystem              *)
(* (RunSourceData), LegacyRequireImpl (Require) and the commonJS / host    *)
(* module records.                                                         *)
(*                                                                         *)
(* A Locator is the sequence of the path segments of a file URL            *)
(* (file:///a/x.js is <<"a", "x.js">>); a specifier is the sequence of the *)
(* segments of the string as written ("./x.js" is <<".", "x.js">>,         *)
(* "/a/x.js" is <<"/", "a", "x.js">>, "k6/http" is <<"k6", "http">>, the   *)
(* empty string is <<>>).                                                  *)
(***************************************************************************)
EXTENDS Integers, Sequences, FiniteSets, TLC

VARIABLES
  cache,      \* ModuleResolver.cache: cache key -> [mod, err]
  reverse,    \* ModuleResolver.reverse: record (or nil) -> Locator
  recs,       \* the module records created so far, by identity (1..Len)
  loads,      \* calls of the Loader, per cache key
  parses,     \* calls of Compiler.Parse, per cache key
  compiles,   \* calls of Compiler.Compile / ModuleFromAST, per cache key
  canon,      \* calls of loader.Resolve made by the resolver, per <<base, specifier>>
  log,        \* what every resolve call returned: [i, base, arg, key, mod, err, up]
  modules,    \* per runtime: record -> its module instance (rt.modules)
  caps,       \* per runtime: record -> the promise of its evaluation
  objs,       \* the script objects created so far, by identity: key -> value
  ptr,        \* per runtime: LegacyRequireImpl.currentlyRequiredModule
  stack,      \* per runtime: the calls in progress, innermost last
  ret,        \* the most recent return of RunSourceData or Require
  fatal,      \* the panic that halted the process, "" while it runs
  ncalls,     \* entry calls made so far
  execs,      \* per runtime: how often the body stored under a cache key ran
  insts,      \* per runtime: how often a record was instantiated
  got,        \* per runtime: <<requiring key, required key>> -> the value require gave
  reads,      \* the bindings of host module instances read so far: [rt, m, name, val]
  thr         \* per runtime: how far its resolve call running beside the others has come

vars == <<cache, reverse, recs, loads, parses, compiles, canon, log, modules,
          caps, objs, ptr, stack, ret, fatal, ncalls, execs, insts, got, reads, thr>>

(***************************************************************************)
(* Bounds                                                                  *)
(***************************************************************************)
MaxCalls == 3          \* entry calls (RunSourceData, Require from a script function)
MaxReads == 3          \* bindings of host module instances read

Runtimes == {"vu1", "vu2"}

(***************************************************************************)
(* Values                                                                  *)
(***************************************************************************)
Nil == 0                                   \* the nil ModuleRecord

NoErr == [kind |-> "nil", at |-> <<>>, n |-> 0]
Err(kind, at, n) == [kind |-> kind, at |-> at, n |-> n]

Put(f, k, v) == [x \in (DOMAIN f) \cup {k} |-> IF x = k THEN v ELSE f[x]]
Count(f, k) == IF k \in DOMAIN f THEN f[k] ELSE 0
Bump(f, k) == Put(f, k, Count(f, k) + 1)
EmptyMap == [x \in {} |-> 0]

(***************************************************************************)
(* Locations: loader.Resolve, loader.Dir, URL.JoinPath("..")               *)
(***************************************************************************)
BaseDir == <<"a">>                          \* ModuleResolver.base, the process pwd
StdinURL == <<"-">>                         \* file://-

Front(s) == IF s = <<>> THEN <<>> ELSE SubSeq(s, 1, Len(s) - 1)

RECURSIVE Clean(_, _)
Clean(acc, segs) ==
  IF segs = <<>> THEN acc
  ELSE IF Head(segs) = "." THEN Clean(acc, Tail(segs))
  ELSE IF Head(segs) = ".." THEN Clean(Front(acc), Tail(segs))
  ELSE Clean(Append(acc, Head(segs)), Tail(segs))

Malformed(spec) == \E i \in 1..Len(spec) : spec[i] = "%"

\* loader.Resolve(pwd, moduleSpecifier): the canonical Locator, or an error
LoaderResolve(pwd, spec) ==
  IF spec = <<>> \/ Malformed(spec)
  THEN [url |-> <<>>, err |-> Err("resolve", spec, 0)]
  ELSE IF Head(spec) = "/"
  THEN [url |-> Clean(<<>>, Tail(spec)), err |-> NoErr]
  ELSE IF Head(spec) \in {".", ".."}
  THEN [url |-> Clean(pwd, spec), err |-> NoErr]
  ELSE [url |-> <<"https:">> \o Clean(<<>>, spec), err |-> NoErr]

\* loader.Dir(url)
LoaderDir(url) == Front(url)

\* url.JoinPath("..")
JoinPathUp(url) == Front(url)

\* url.String(), the cache key of a Locator
URLString(url) ==
  IF url # <<>> /\ Head(url) = "https:" THEN url ELSE <<"file:">> \o url

\* the specifier that is the absolute URL of a Locator (SourceData.URL.String())
URLSpec(url) == <<"/">> \o url

(***************************************************************************)
(* The collaborators: the sources the Loader can find, what the Compiler   *)
(* makes of each, and the built-in module table.                           *)
(***************************************************************************)
\* the statements of a module body
OpRequire(spec) == [op |-> "require", spec |-> spec, key |-> "", val |-> 0]
OpSet(k, v) == [op |-> "set", spec |-> <<>>, key |-> k, val |-> v]          \* exports.k = v
OpAssign(k, v) == [op |-> "assign", spec |-> <<>>, key |-> k, val |-> v]    \* module.exports = {k: v}
OpAssignNull == [op |-> "null", spec |-> <<>>, key |-> "", val |-> 0]       \* module.exports = null
OpAssignUndefined == [op |-> "undefined", spec |-> <<>>, key |-> "", val |-> 0]  \* module.exports = undefined
OpDeleteExports == [op |-> "delete", spec |-> <<>>, key |-> "", val |-> 0]       \* delete module.exports
OpSetOwn == [op |-> "own", spec |-> <<>>, key |-> "", val |-> 1]                \* exports[name of the runtime] = 1
OpThrow == [op |-> "throw", spec |-> <<>>, key |-> "", val |-> 0]           \* throw

OpImport(spec) == [op |-> "import", spec |-> spec, key |-> "", val |-> 0]  \* import ... from spec

Source(fmt, tla, imports, body) ==
  [fmt |-> fmt, tla |-> tla, imports |-> imports, body |-> body]

\* source text, by name: its format as the Compiler sees it (tla: it awaits at
\* its top level), the specifiers it imports statically and its body
Sources ==
  [ main   |-> Source("cjs", FALSE, <<>>, <<OpRequire(<<".", "x.js">>), OpSet("m", 1)>>),
    main2  |-> Source("cjs", FALSE, <<>>, <<OpSet("m", 2)>>),
    x      |-> Source("cjs", FALSE, <<>>, <<OpSet("a", 1), OpRequire(<<".", "y.js">>)>>),
    y      |-> Source("cjs", FALSE, <<>>, <<OpRequire(<<"/", "a", "x.js">>), OpAssign("b", 2)>>),
    u      |-> Source("cjs", FALSE, <<>>, <<OpRequire(<<".", "v.js">>), OpSet("u", 1)>>),
    v      |-> Source("cjs", FALSE, <<>>, <<OpRequire(<<"k6">>), OpSet("c", 3)>>),
    w      |-> Source("cjs", FALSE, <<>>, <<OpRequire(<<".", "lib", "z.js">>), OpSet("d", 4)>>),
    z      |-> Source("cjs", FALSE, <<>>, <<OpThrow>>),
    n      |-> Source("cjs", FALSE, <<>>, <<OpAssignNull>>),
    nu     |-> Source("cjs", FALSE, <<>>, <<OpSet("a", 1), OpAssignUndefined>>),
    na     |-> Source("cjs", FALSE, <<>>, <<OpDeleteExports>>),
    own    |-> Source("cjs", FALSE, <<>>, <<OpSetOwn>>),
    e      |-> Source("esm", FALSE, <<<<".", "lib", "u.js">>, <<"k6", "http">>>>, <<OpSet("e", 5)>>),
    g      |-> Source("esm", FALSE, <<<<".", "%">>>>, <<OpSet("g", 1)>>),
    h      |-> Source("esm", FALSE, <<<<".", "lib", "z.js">>, <<".", "%">>>>, <<OpSet("h", 1)>>),
    t      |-> Source("esm", TRUE, <<>>, <<OpSet("t", 6)>>),
    bad    |-> Source("syntaxerr", FALSE, <<>>, <<>>),
    badc   |-> Source("compileerr", FALSE, <<>>, <<>>) ]

\* the statements a record runs when evaluated: its imports, then its body
Program(data) ==
  [i \in 1..Len(Sources[data].imports) |-> OpImport(Sources[data].imports[i])]
    \o Sources[data].body

\* the files the Loader can find: Locator -> source name
Files ==
  ( <<"a", "main.js">>     :> "main" ) @@
  ( <<"a", "x.js">>        :> "x" ) @@
  ( <<"a", "y.js">>        :> "y" ) @@
  ( <<"a", "w.js">>        :> "w" ) @@
  ( <<"a", "n.js">>        :> "n" ) @@
  ( <<"a", "e.js">>        :> "e" ) @@
  ( <<"a", "g.js">>        :> "g" ) @@
  ( <<"a", "h.js">>        :> "h" ) @@
  ( <<"a", "t.js">>        :> "t" ) @@
  ( <<"a", "bad.js">>      :> "bad" ) @@
  ( <<"a", "badc.js">>     :> "badc" ) @@
  ( <<"a", "lib", "u.js">> :> "u" ) @@
  ( <<"a", "lib", "z.js">> :> "z" ) @@
  ( <<"a", "lib", "v.js">> :> "v" )

\* the files that exist but cannot always be read
Flaky == { <<"a", "x.js">>, <<"a", "lib", "z.js">>, <<"a", "lib", "v.js">> }

\* what can be wrong with the file system during one step: nothing, or one
\* of the flaky files cannot be read
Outages == {{}} \cup { {url} : url \in Flaky }

\* Exports of a conforming host module: Named (nil or a mapping), Default (nil or a value)
Exports(hasNamed, named, hasDefault, default) ==
  [hasNamed |-> hasNamed, Named |-> named, hasDefault |-> hasDefault, Default |-> default]

\* ModuleResolver.goModules: name -> the native value
goModules ==
  ( <<"k6">>          :> [isModule |-> TRUE,
                          exports |-> Exports(TRUE, [k \in {"x", "y"} |-> IF k = "x" THEN 1 ELSE 2], FALSE, 0)] ) @@
  ( <<"k6", "http">>  :> [isModule |-> TRUE,
                          exports |-> Exports(TRUE, [k \in {"get"} |-> 7], TRUE, 8)] ) @@
  ( <<"k6", "d">>     :> [isModule |-> TRUE,
                          exports |-> Exports(FALSE, EmptyMap, TRUE, 9)] ) @@
  ( <<"k6", "x", "p">> :> [isModule |-> FALSE,
                          exports |-> Exports(TRUE, [k \in {"p"} |-> 4], FALSE, 0)] )

\* FileLoader: the bytes of the file at url, or an error; down are the files
\* that cannot be read this time
loadCJS(w, url, arg, down) ==
  LET key == URLString(url)
      w1 == [w EXCEPT !.loads = Bump(@, key)] IN
  IF url \in DOMAIN Files /\ url \notin down
  THEN [W |-> w1, data |-> Files[url], err |-> NoErr]
  ELSE [W |-> w1, data |-> "", err |-> Err("load", key, Count(w1.loads, key))]

\* compiler.Parse(data, name, false): (prg, isESM, err)
Parse(w, key, data) ==
  LET w1 == [w EXCEPT !.parses = Bump(@, key)] IN
  IF Sources[data].fmt = "syntaxerr"
  THEN [W |-> w1, isESM |-> FALSE, err |-> Err("parse", key, Count(w1.parses, key))]
  ELSE [W |-> w1, isESM |-> Sources[data].fmt \in {"esm", "esmerr"}, err |-> NoErr]

\* a new module record
NewRecord(w, kind, key, src) ==
  [W |-> [w EXCEPT !.recs = Append(@, [kind |-> kind, key |-> key, src |-> src,
                                       linked |-> FALSE, once |-> FALSE,
                                       exportedNames |-> <<>>])],
   mod |-> Len(w.recs) + 1, err |-> NoErr]

(***************************************************************************)
(* ModuleResolver.  Every operator takes the program's state w (the record *)
(* World below) and returns the state it leaves in field W.                *)
(***************************************************************************)
World ==
  [cache |-> cache, reverse |-> reverse, recs |-> recs, loads |-> loads,
   parses |-> parses, compiles |-> compiles, canon |-> canon, log |-> log,
   modules |-> modules, caps |-> caps, objs |-> objs, ptr |-> ptr,
   stack |-> stack, ret |-> ret, fatal |-> fatal, ncalls |-> ncalls,
   execs |-> execs, insts |-> insts, got |-> got, reads |-> reads,
   thr |-> thr]

Commit(w) ==
  /\ cache' = w.cache
  /\ reverse' = w.reverse
  /\ recs' = w.recs
  /\ loads' = w.loads
  /\ parses' = w.parses
  /\ compiles' = w.compiles
  /\ canon' = w.canon
  /\ log' = w.log
  /\ modules' = w.modules
  /\ caps' = w.caps
  /\ objs' = w.objs
  /\ ptr' = w.ptr
  /\ stack' = w.stack
  /\ ret' = w.ret
  /\ fatal' = w.fatal
  /\ ncalls' = w.ncalls
  /\ execs' = w.execs
  /\ insts' = w.insts
  /\ got' = w.got
  /\ reads' = w.reads
  /\ thr' = w.thr

\* what a resolver call returns: the state, the record (or nil) and the error
Out(w, mod, err) == [W |-> w, mod |-> mod, err |-> err]

\* cjsModuleFromString: Compiler.Compile, then newCjsModule
cjsModuleFromString(w, key, data) ==
  LET w1 == [w EXCEPT !.compiles = Bump(@, key)] IN
  IF Sources[data].fmt = "compileerr"
  THEN Out(w1, Nil, Err("compile", key, Count(w1.compiles, key)))
  ELSE NewRecord(w1, "cjs", key, data)

\* goja.ModuleFromAST
ModuleFromAST(w, key, data) ==
  IF Sources[data].fmt = "esmerr"
  THEN Out(w, Nil, Err("ast", key, Count(w.parses, key)))
  ELSE NewRecord(w, "esm", key, data)

resolveSpecifier(w, basePWD, arg) ==
  LET r == LoaderResolve(basePWD, arg) IN
  [W |-> [w EXCEPT !.canon = Bump(@, <<basePWD, arg>>)], url |-> r.url, err |-> r.err]

requireModule(w, name) ==
  IF name \notin DOMAIN goModules
  THEN Out(w, Nil, Err("unknown module", name, 0))
  ELSE IF ~goModules[name].isModule
  THEN NewRecord(w, "baseGoModule", name, "")
  ELSE NewRecord(w, "goModule", name, "")

\* Intermediate results are handed on as parameters: each operator below is
\* the code from one call to the next.

\* resolveLoaded that leaves the cache as it is
resolveLoadedStore_NoCache(c, url) ==
  Out([c.W EXCEPT !.reverse = Put(@, c.mod, url)], c.mod, c.err)

\* resolveLoaded, lines 87-89: c is what the record's construction returned
resolveLoadedStore(c, url) ==
  Out([c.W EXCEPT !.reverse = Put(@, c.mod, url),
                  !.cache = Put(@, URLString(url), [mod |-> c.mod, err |-> c.err])],
      c.mod, c.err)

\* resolveLoaded, lines 77-86: p is what Compiler.Parse returned
resolveLoadedParsed(p, url, data) ==
  IF p.err # NoErr
  THEN Out([p.W EXCEPT !.cache = Put(@, URLString(url), [mod |-> Nil, err |-> p.err])],
           Nil, p.err)
  ELSE resolveLoadedStore(IF p.isESM THEN ModuleFromAST(p.W, URLString(url), data)
                          ELSE cjsModuleFromString(p.W, URLString(url), data),
                          url)

\* resolveLoaded that compiles the bytes it is given without looking into the cache
resolveLoadedAt_NoLookup(s, data) ==
  IF s.err # NoErr THEN Out(s.W, Nil, s.err)
  ELSE resolveLoadedParsed(Parse(s.W, URLString(s.url), data), s.url, data)

\* resolveLoaded, lines 69-76: s is what resolveSpecifier returned
resolveLoadedAt(s, data) ==
  IF s.err # NoErr THEN Out(s.W, Nil, s.err)
  ELSE IF URLString(s.url) \in DOMAIN s.W.cache
  THEN Out(s.W, s.W.cache[URLString(s.url)].mod, s.W.cache[URLString(s.url)].err)
  ELSE resolveLoadedParsed(Parse(s.W, URLString(s.url), data), s.url, data)

resolveLoaded(w, basePWD, arg, data) ==
  resolveLoadedAt(resolveSpecifier(w, basePWD, arg), data)

IsBuiltin(arg) == arg # <<>> /\ Head(arg) = "k6"

\* resolve without the cache of the built-in namespace
resolveBuiltin_Uncached(w, arg) == requireModule(w, arg)

\* resolve, lines 102-107: the built-in namespace
resolveBuiltin(w, arg) ==
  IF arg \in DOMAIN w.cache
  THEN Out(w, w.cache[arg].mod, w.cache[arg].err)
  ELSE LET q == requireModule(w, arg) IN
       Out([q.W EXCEPT !.cache = Put(@, arg, [mod |-> q.mod, err |-> q.err])],
           q.mod, q.err)

\* resolve that returns the Loader's error without storing it
resolveFetched_Unsaved(l, url, basePWD, arg) ==
  IF l.err # NoErr THEN Out(l.W, Nil, l.err)
  ELSE resolveLoaded(l.W, basePWD, arg, l.data)

\* resolve, lines 120-124: l is what the Loader returned
resolveFetched(l, url, basePWD, arg) ==
  IF l.err # NoErr
  THEN Out([l.W EXCEPT !.cache = Put(@, URLString(url), [mod |-> Nil, err |-> l.err])],
           Nil, l.err)
  ELSE resolveLoaded(l.W, basePWD, arg, l.data)

\* resolve that asks the Loader without looking into the cache
resolveAt_NoLookup(s, basePWD, arg, down) ==
  IF s.err # NoErr THEN Out(s.W, Nil, s.err)
  ELSE resolveFetched(loadCJS(s.W, s.url, arg, down), s.url, basePWD, arg)

\* resolve that stores the error of a specifier it could not make canonical
resolveAt_StoresResolveError(s, basePWD, arg, down) ==
  IF s.err # NoErr
  THEN Out([s.W EXCEPT !.cache = Put(@, arg, [mod |-> Nil, err |-> s.err])], Nil, s.err)
  ELSE IF URLString(s.url) \in DOMAIN s.W.cache
  THEN Out(s.W, s.W.cache[URLString(s.url)].mod, s.W.cache[URLString(s.url)].err)
  ELSE resolveFetched(loadCJS(s.W, s.url, arg, down), s.url, basePWD, arg)

\* resolve, lines 110-119: s is what resolveSpecifier returned
resolveAt(s, basePWD, arg, down) ==
  IF s.err # NoErr THEN Out(s.W, Nil, s.err)
  ELSE IF URLString(s.url) \in DOMAIN s.W.cache
  THEN Out(s.W, s.W.cache[URLString(s.url)].mod, s.W.cache[URLString(s.url)].err)
  ELSE resolveFetched(loadCJS(s.W, s.url, arg, down), s.url, basePWD, arg)

resolveBody(w, basePWD, arg, down) ==
  IF IsBuiltin(arg) THEN resolveBuiltin(w, arg)
  ELSE resolveAt(resolveSpecifier(w, basePWD, arg), basePWD, arg, down)

\* whether a call that returned err left unread a file the Loader could
\* have read, had it been asked
Readable(err, basePWD, arg, down) ==
  /\ err # NoErr
  /\ ~IsBuiltin(arg)
  /\ LoaderResolve(basePWD, arg).err = NoErr
  /\ LoaderResolve(basePWD, arg).url \in DOMAIN Files
  /\ LoaderResolve(basePWD, arg).url \notin down

\* the cache key of the Locator that arg names against basePWD; <<>> for a
\* built-in specifier and for one that cannot be made canonical
CanonicalKey(basePWD, arg) ==
  IF IsBuiltin(arg) \/ LoaderResolve(basePWD, arg).err # NoErr THEN <<>>
  ELSE URLString(LoaderResolve(basePWD, arg).url)

\* what a resolve call returned, added to the record of resolve calls
Logged(out, basePWD, arg, down) ==
  Out([out.W EXCEPT !.log = @ \cup {[i |-> Cardinality(@) + 1, base |-> basePWD,
                                      arg |-> arg, key |-> CanonicalKey(basePWD, arg),
                                      mod |-> out.mod, err |-> out.err,
                                      up |-> Readable(out.err, basePWD, arg, down)]}],
      out.mod, out.err)

resolve(w, basePWD, arg, down) ==
  Logged(resolveBody(w, basePWD, arg, down), basePWD, arg, down)

\* reversePath: the base for requests made by module ref; panics on an unknown ref
reversePath(w, ref) ==
  IF ref \notin DOMAIN w.reverse
  THEN [dir |-> BaseDir, panic |-> ref # Nil]
  ELSE IF w.reverse[ref] = StdinURL
  THEN [dir |-> BaseDir, panic |-> FALSE]
  ELSE [dir |-> JoinPathUp(w.reverse[ref]), panic |-> FALSE]

gojaModuleResolver(w, ref, specifier, down) ==
  resolve(w, reversePath(w, ref).dir, specifier, down)

(***************************************************************************)
(* Script values: an object is its identity, a positive index into objs.   *)
(***************************************************************************)
JSNil == 0                                  \* no value (a nil goja.Value)
JSNull == -1                                \* null
JSTrue == -2                                \* true
JSUndefined == -3                           \* undefined

\* a value handed to a script: an object by identity, a mapping or a plain value
Val(t, id, map) == [t |-> t, id |-> id, map |-> map]
NoVal == Val("none", 0, EmptyMap)

NewObject(w, props) == [W |-> [w EXCEPT !.objs = Append(@, props)], id |-> Len(w.objs) + 1]

RECURSIVE SeqOf(_)
SeqOf(S) == IF S = {} THEN <<>> ELSE LET x == CHOOSE y \in S : TRUE IN <<x>> \o SeqOf(S \ {x})

Blanks(n) == [i \in 1..n |-> ""]

\* Imported that leaves out the entries that hold an error
Imported_Successful(w) ==
  SeqOf({ name \in DOMAIN w.cache : w.cache[name].err = NoErr })

\* Imported: nil for an empty cache, else the keys of the cache in the
\* order the map yields them
Imported(w) ==
  IF DOMAIN w.cache = {} THEN <<>> ELSE SeqOf(DOMAIN w.cache)

(***************************************************************************)
(* Module records and instances                                            *)
(***************************************************************************)
\* initial is the exports object the body was handed when it started
Instance(kind, exports) ==
  [kind |-> kind, exports |-> exports, initial |-> exports, marked |-> FALSE,
   defaultExport |-> NoVal]

\* exportedNames computed anew every time
OnceNames_EveryTime(w, m, names) ==
  [w EXCEPT !.recs[m].once = TRUE, !.recs[m].exportedNames = names]

\* sync.Once around the computation of a record's exportedNames
OnceNames(w, m, names) ==
  IF w.recs[m].once THEN w
  ELSE [w EXCEPT !.recs[m].once = TRUE, !.recs[m].exportedNames = names]

\* goModule.Instantiate
goModuleInstantiate(w, r, m) ==
  LET named == goModules[w.recs[m].key].exports.Named
      w1 == OnceNames(w, m, Blanks(Cardinality(DOMAIN named)) \o SeqOf(DOMAIN named)) IN
  [w1 EXCEPT !.modules[r] = Put(@, m, Instance("goModule", JSNil))]

\* goModule.GetExportedNames; it panics when no instantiation has set the names
GetExportedNames(w, m) ==
  IF w.recs[m].once THEN [names |-> w.recs[m].exportedNames, panic |-> ""]
  ELSE [names |-> <<>>, panic |-> "this shouldn't happen"]

\* baseGoModule.Instantiate
baseGoModuleInstantiate(w, r, m) ==
  LET o == NewObject(w, goModules[w.recs[m].key].exports.Named)
      w1 == OnceNames(o.W, m, SeqOf(DOMAIN o.W.objs[o.id])) IN
  [w1 EXCEPT !.modules[r] = Put(@, m, Instance("baseGoModule", o.id))]

\* cjsModule.Instantiate
cjsModuleInstantiate(w, r, m) ==
  [w EXCEPT !.modules[r] = Put(@, m, Instance("cjs", JSNil))]

\* the engine's instance of a graph module
esmInstantiate(w, r, m) ==
  LET o == NewObject(w, EmptyMap) IN
  [o.W EXCEPT !.modules[r] = Put(@, m, Instance("esm", o.id))]

Instantiate(w, r, m) ==
  LET w1 == [w EXCEPT !.insts[r] = Bump(@, m)]
      kind == w.recs[m].kind IN
  IF kind = "goModule" THEN goModuleInstantiate(w1, r, m)
  ELSE IF kind = "baseGoModule" THEN baseGoModuleInstantiate(w1, r, m)
  ELSE IF kind = "cjs" THEN cjsModuleInstantiate(w1, r, m)
  ELSE esmInstantiate(w1, r, m)

\* getDefaultExport, lines 91-101: the default object made of the named exports
defaultFromNamed(o, r, m) ==
  [W |-> [o.W EXCEPT !.modules[r][m].defaultExport = Val("object", o.id, EmptyMap)],
   val |-> Val("object", o.id, EmptyMap)]

\* getDefaultExport that derives the default object anew on every read
getDefaultExport_Unmemoized(w, r, m) ==
  LET exp == goModules[w.recs[m].key].exports IN
  IF exp.hasDefault
  THEN [W |-> w, val |-> Val("value", exp.Default, EmptyMap)]
  ELSE defaultFromNamed(NewObject(w, exp.Named), r, m)

\* goModuleInstance.getDefaultExport
getDefaultExport(w, r, m) ==
  LET exp == goModules[w.recs[m].key].exports IN
  IF w.modules[r][m].defaultExport # NoVal
  THEN [W |-> w, val |-> w.modules[r][m].defaultExport]
  ELSE IF exp.hasDefault
  THEN [W |-> [w EXCEPT !.modules[r][m].defaultExport = Val("value", exp.Default, EmptyMap)],
        val |-> Val("value", exp.Default, EmptyMap)]
  ELSE defaultFromNamed(NewObject(w, exp.Named), r, m)

\* property name of the value d: a plain value has no property of its own
GetOf(d, name) ==
  IF d.val.t = "object" /\ name \in DOMAIN d.W.objs[d.val.id]
  THEN [W |-> d.W, val |-> Val("value", d.W.objs[d.val.id][name], EmptyMap)]
  ELSE [W |-> d.W, val |-> Val("undefined", 0, EmptyMap)]

\* goModuleInstance.GetBindingValue
GetBindingValue(w, r, m, name) ==
  LET exp == goModules[w.recs[m].key].exports IN
  IF name = "default" THEN getDefaultExport(w, r, m)
  ELSE IF exp.hasNamed
  THEN [W |-> w, val |-> IF name \in DOMAIN exp.Named
                         THEN Val("value", exp.Named[name], EmptyMap)
                         ELSE Val("null", 0, EmptyMap)]
  ELSE GetOf(getDefaultExport(w, r, m), name)

\* the value read is noted
ReadNoted(b, r, m, name) ==
  [b.W EXCEPT !.reads = Append(@, [rt |-> r, m |-> m, name |-> name, val |-> b.val])]

(***************************************************************************)
(* The engine's evaluation of a cyclic module record                       *)
(***************************************************************************)
Promise(st, err) == [st |-> st, err |-> err]
Pending == Promise("pending", NoErr)
Fulfilled == Promise("fulfilled", NoErr)
Rejected(err) == Promise("rejected", err)

Settle(w, r, m, p) == [w EXCEPT !.caps[r] = Put(@, m, p)]

\* cjsModuleInstance.ExecuteModule up to the call of the body: the exports
\* object is made and handed to the body as exports and module.exports
ExecuteStart(w, r, m) ==
  LET w1 == [w EXCEPT !.execs[r] = Bump(@, w.recs[m].key)] IN
  IF w.recs[m].kind = "cjs"
  THEN LET o == NewObject(w1, EmptyMap) IN
       [o.W EXCEPT !.modules[r][m].exports = o.id, !.modules[r][m].initial = o.id]
  ELSE w1

\* the record was instantiated: host modules have nothing to execute
Instantiated(w, r, m) ==
  IF w.recs[m].kind \in {"goModule", "baseGoModule"}
  THEN [W |-> Settle(w, r, m, Fulfilled), run |-> FALSE]
  ELSE [W |-> ExecuteStart(w, r, m), run |-> TRUE]

\* rt.CyclicModuleRecordEvaluate up to the first statement of a body:
\* run tells whether a body now has to run
CyclicModuleRecordEvaluate(w, r, m) ==
  IF m \in DOMAIN w.caps[r] THEN [W |-> w, run |-> FALSE]
  ELSE IF m \in DOMAIN w.modules[r]
  THEN [W |-> Settle(w, r, m, Fulfilled), run |-> FALSE]
  ELSE Instantiated(Instantiate(Settle(w, r, m, Pending), r, m), r, m)

(***************************************************************************)
(* Calls in progress.  A frame is one call of RunSourceData or Require,    *)
(* with the body it is running (if it started one).                        *)
(***************************************************************************)
Frame(call, spec, pwd, deferred) ==
  [call |-> call,             \* "Run", "Require", or "Import": the engine evaluating a request
   spec |-> spec,
   entry |-> pwd,            \* the pointer when the call was entered
   currentPWD |-> pwd,       \* Require's local currentPWD
   deferred |-> deferred,    \* whether the restoring defer was registered
   m |-> Nil,                \* the record resolved
   err |-> NoErr,            \* the error met before any evaluation
   path |-> "err",           \* "err", "host" (a goModule) or "eval"
   host |-> NoVal,           \* the flat exports of a goModule
   phase |-> "ret",          \* "body": the body is running; "ret": about to return
   pc |-> 1,                 \* the next statement of the body
   modexp |-> JSNil,         \* module.exports of the running body
   async |-> FALSE]          \* the evaluation waits on a top-level await

Push(w, r, f) == [w EXCEPT !.stack[r] = Append(@, f)]
Top(w, r) == w.stack[r][Len(w.stack[r])]
Panic(w, msg) == [w EXCEPT !.fatal = msg]

\* toESModuleExports that adds no key to the named entries
toESModuleExports_NamedOnly(exp) ==
  IF ~exp.hasNamed
  THEN IF exp.hasDefault THEN Val("value", exp.Default, EmptyMap) ELSE Val("nil", 0, EmptyMap)
  ELSE Val("map", 0, exp.Named)

\* toESModuleExports
toESModuleExports(exp) ==
  IF ~exp.hasNamed
  THEN IF exp.hasDefault THEN Val("value", exp.Default, EmptyMap) ELSE Val("nil", 0, EmptyMap)
  ELSE IF ~exp.hasDefault THEN Val("map", 0, exp.Named)
  ELSE Val("map", 0,
           [k \in (DOMAIN exp.Named) \cup {"default", "__esModule"} |->
              IF k = "__esModule" THEN JSTrue
              ELSE IF k = "default" THEN exp.Default
              ELSE exp.Named[k]])

\* getModuleInstanceFromGoModule, lines 120-131: e is the evaluation started
goModuleEvaluated(e, r, wm) ==
  IF e.W.caps[r][wm].st = "rejected"
  THEN [W |-> e.W, err |-> e.W.caps[r][wm].err, panic |-> ""]
  ELSE IF e.W.caps[r][wm].st = "fulfilled"
  THEN [W |-> e.W, err |-> NoErr, panic |-> ""]
  ELSE [W |-> e.W, err |-> NoErr,
        panic |-> "TLA in go modules is not supported in k6 at the moment"]

\* getModuleInstanceFromGoModule
getModuleInstanceFromGoModule(w, r, wm) ==
  IF wm \in DOMAIN w.modules[r]
  THEN [W |-> w, err |-> NoErr, panic |-> ""]
  ELSE goModuleEvaluated(CyclicModuleRecordEvaluate(w, r, wm), r, wm)

\* e is the evaluation started: the frame of the call is pushed
Started(e, r, f) ==
  Push(e.W, r, [f EXCEPT !.path = "eval",
                         !.phase = IF e.run THEN "body" ELSE "ret",
                         !.modexp = e.W.modules[r][f.m].exports])

\* the requests of graph module m: <<referencing record, specifier>>
Requests(w, m) ==
  [i \in 1..Len(Sources[w.recs[m].src].imports) |->
     <<m, Sources[w.recs[m].src].imports[i]>>]

RECURSIVE LinkFrom(_, _, _, _)
\* d is what the resolution of the first request of todo returned
LinkResolved(d, todo, seen, down) ==
  IF d.err # NoErr THEN [W |-> d.W, err |-> d.err]
  ELSE IF d.mod \in seen \/ d.W.recs[d.mod].kind # "esm" \/ d.W.recs[d.mod].linked
  THEN LinkFrom(d.W, Tail(todo), seen, down)
  ELSE LinkFrom(d.W, Requests(d.W, d.mod) \o Tail(todo), seen \cup {d.mod}, down)

\* the engine links a graph: every request is resolved, depth first, each
\* module once; the modules seen are linked when all their requests resolved
LinkFrom(w, todo, seen, down) ==
  IF todo = <<>>
  THEN [W |-> [w EXCEPT !.recs = [i \in DOMAIN w.recs |->
                                    IF i \in seen THEN [w.recs[i] EXCEPT !.linked = TRUE]
                                    ELSE w.recs[i]]],
        err |-> NoErr]
  ELSE LinkResolved(gojaModuleResolver(w, Head(todo)[1], Head(todo)[2], down),
                    todo, seen, down)

\* ModuleRecord.Link: nil for commonJS and host records
Link(w, m, down) ==
  IF w.recs[m].kind # "esm" \/ w.recs[m].linked THEN [W |-> w, err |-> NoErr]
  ELSE LinkFrom(w, Requests(w, m), {m}, down)

\* l is what Link returned
Linked(l, r, f) ==
  IF l.err # NoErr THEN Push(l.W, r, [f EXCEPT !.err = l.err])
  ELSE Started(CyclicModuleRecordEvaluate(l.W, r, f.m), r, f)

\* Link, then the start of the evaluation:
\* Require lines 85-94, RunSourceData lines 199-209
StartEvaluation(w, r, f, down) == Linked(Link(w, f.m, down), r, f)

\* Require, lines 78-84: g is what getModuleInstanceFromGoModule returned
RequireHost(g, r, f) ==
  IF g.panic # "" THEN Panic(g.W, g.panic)
  ELSE IF g.err # NoErr THEN Push(g.W, r, [f EXCEPT !.err = g.err])
  ELSE Push(g.W, r, [f EXCEPT !.path = "host",
                 !.host = toESModuleExports(goModules[g.W.recs[f.m].key].exports)])

\* Require, lines 73-94: m is what the resolution of the specifier returned
RequireResolved(m, r, f, down) ==
  IF m.err # NoErr THEN Push(m.W, r, [f EXCEPT !.err = m.err])
  ELSE IF m.W.recs[m.mod].kind = "goModule"
  THEN RequireHost(getModuleInstanceFromGoModule(m.W, r, m.mod), r, [f EXCEPT !.m = m.mod])
  ELSE StartEvaluation(m.W, r, [f EXCEPT !.m = m.mod], down)

\* Require that resolves the specifier against the pointer read at entry
RequireFrom_FromPointer(parentModule, r, f, down) ==
  RequireResolved(resolve(parentModule.W, f.currentPWD, f.spec, down), r, f, down)

\* Require, line 72: parentModule is what the resolution of the requiring file returned
RequireFrom(parentModule, r, f, down) ==
  IF reversePath(parentModule.W, parentModule.mod).panic
  THEN Panic(parentModule.W, "fix this")
  ELSE RequireResolved(gojaModuleResolver(parentModule.W, parentModule.mod, f.spec, down),
                       r, f, down)

\* Require, lines 62-71
RequireResolve(w, r, f, parentModuleStr, down) ==
  RequireFrom(gojaModuleResolver(w, Nil, parentModuleStr, down), r, f, down)

\* Require that hands every specifier to the resolver
RequireEnter_Unchecked(w, r, specifier, parentModuleStr, down) ==
  RequireResolve(w, r, Frame("Require", specifier, w.ptr[r], FALSE), parentModuleStr, down)

\* Require, lines 43-60: the pointer is saved and, for a specifier outside
\* the built-in namespace, moved to the directory of the file required
RequireEnter(w, r, specifier, parentModuleStr, down) ==
  IF ~IsBuiltin(specifier) /\ LoaderResolve(w.ptr[r], specifier).err # NoErr
  THEN Push(w, r, [Frame("Require", specifier, w.ptr[r], TRUE)
                     EXCEPT !.err = LoaderResolve(w.ptr[r], specifier).err])
  ELSE IF specifier = <<>>
  THEN Push([w EXCEPT !.ptr[r] = LoaderDir(LoaderResolve(w.ptr[r], specifier).url)], r,
            [Frame("Require", specifier, w.ptr[r], TRUE)
               EXCEPT !.err = Err("empty specifier", <<>>, 0)])
  ELSE IF IsBuiltin(specifier)
  THEN RequireResolve(w, r, Frame("Require", specifier, w.ptr[r], FALSE),
                      parentModuleStr, down)
  ELSE RequireResolve([w EXCEPT !.ptr[r] = LoaderDir(LoaderResolve(w.ptr[r], specifier).url)],
                      r, Frame("Require", specifier, w.ptr[r], TRUE), parentModuleStr, down)

\* RunSourceData, lines 195-209: b is what resolve returned
RunResolved(b, r, f, down) ==
  IF b.err # NoErr THEN Push(b.W, r, [f EXCEPT !.err = b.err])
  ELSE StartEvaluation(b.W, r, [f EXCEPT !.m = b.mod], down)

\* RunSourceData, lines 191-195: a is what resolveLoaded returned
RunLoaded(a, r, f, url, down) ==
  IF a.err # NoErr THEN Push(a.W, r, [f EXCEPT !.err = a.err])
  ELSE RunResolved(resolve(a.W, JoinPathUp(url), URLSpec(url), down), r, f, down)

\* RunSourceData, lines 188-191
RunSourceData(w, r, url, data, down) ==
  RunLoaded(resolveLoaded(w, JoinPathUp(url), URLSpec(url), data), r,
            Frame("Run", URLSpec(url), w.ptr[r], FALSE), url, down)

(***************************************************************************)
(* The body of a module, one statement at a time                           *)
(***************************************************************************)
SetTop(w, r, f) == [w EXCEPT !.stack[r][Len(w.stack[r])] = f]

\* the evaluation a call started settles (an imported module has no promise
\* of its own: its outcome goes to the importing module)
Finish(w, r, f, p) == IF f.call = "Import" THEN w ELSE Settle(w, r, f.m, p)

\* the body ends with an error: the evaluation is rejected with it
BodyFails(w, r, f, err) ==
  SetTop(Finish(w, r, f, Rejected(err)), r,
         [f EXCEPT !.phase = "ret",
                   !.path = IF f.call = "Import" THEN "err" ELSE f.path,
                   !.err = IF f.call = "Import" THEN err ELSE f.err])

\* ExecuteModule that leaves the instance's exports as they were at the start
cjsBodyEnd_KeepsExports(w, r, f, recovered) ==
  IF f.modexp = JSNull
  THEN BodyFails(w, r, f, Err("exports must be an object", w.recs[f.m].key, 0))
  ELSE SetTop(Finish(OnceNames(w, f.m, SeqOf(DOMAIN w.objs[f.modexp])), r, f, Fulfilled),
              r, [f EXCEPT !.phase = "ret"])

\* ExecuteModule, line 303: ToObject of a value that is no object and not
\* null panics; recovered tells whether the engine turns the panic into an
\* error of the evaluation
ToObjectPanics(w, r, f, recovered) ==
  IF recovered THEN BodyFails(w, r, f, Err("TypeError", w.recs[f.m].key, 0))
  ELSE Panic(w, "cannot convert undefined or null to object")

\* cjsModuleInstance.ExecuteModule, lines 299-310: the body has returned
cjsBodyEnd(w, r, f, recovered) ==
  IF f.modexp = JSNull
  THEN BodyFails(w, r, f, Err("exports must be an object", w.recs[f.m].key, 0))
  ELSE IF f.modexp \in {JSUndefined, JSNil}
  THEN ToObjectPanics(w, r, f, recovered)
  ELSE LET keys == DOMAIN w.objs[f.modexp]
           w1 == OnceNames(w, f.m, SeqOf(keys))
           w2 == [w1 EXCEPT !.modules[r][f.m].exports = f.modexp,
                            !.modules[r][f.m].marked =
                               ("__esModule" \in keys /\ w.objs[f.modexp]["__esModule"] = JSTrue)] IN
       SetTop(Finish(w2, r, f, Fulfilled), r, [f EXCEPT !.phase = "ret"])

\* the body of a graph module has run: the evaluation is fulfilled, unless
\* the module awaits at its top level
esmBodyEnd(w, r, f) ==
  IF Sources[w.recs[f.m].src].tla
  THEN SetTop(w, r, [f EXCEPT !.phase = "ret", !.async = TRUE])
  ELSE SetTop(Finish(w, r, f, Fulfilled), r, [f EXCEPT !.phase = "ret"])

\* the engine starts the body of the requested module m
ImportStarted(w, r, m, spec) ==
  Push(w, r, [Frame("Import", spec, w.ptr[r], FALSE)
                EXCEPT !.m = m, !.path = "eval", !.phase = "body",
                       !.modexp = w.modules[r][m].exports])

\* the engine evaluates a request of the graph module of frame f before its
\* body: d is what the resolution of the request returned
ImportResolved(d, r, f) ==
  IF d.err # NoErr THEN BodyFails(d.W, r, f, d.err)
  ELSE IF d.mod \in DOMAIN d.W.modules[r]
  THEN SetTop(d.W, r, [f EXCEPT !.pc = f.pc + 1])
  ELSE IF d.W.recs[d.mod].kind \in {"goModule", "baseGoModule"}
  THEN SetTop(Instantiate(d.W, r, d.mod), r, [f EXCEPT !.pc = f.pc + 1])
  ELSE ImportStarted(ExecuteStart(Instantiate(d.W, r, d.mod), r, d.mod), r, d.mod, f.spec)

\* one statement of the running body
BodyStep(w, r, down, recovered) ==
  LET f == Top(w, r)
      rec == w.recs[f.m]
      body == Program(rec.src)
      st == body[f.pc]
      next == [f EXCEPT !.pc = f.pc + 1] IN
  IF f.pc > Len(body)
  THEN IF rec.kind = "cjs" THEN cjsBodyEnd(w, r, f, recovered) ELSE esmBodyEnd(w, r, f)
  ELSE IF st.op = "import"
  THEN ImportResolved(gojaModuleResolver(w, f.m, st.spec, down), r, f)
  ELSE IF st.op = "set"
  THEN SetTop([w EXCEPT !.objs[w.modules[r][f.m].exports] = Put(@, st.key, st.val)], r, next)
  ELSE IF st.op = "own"
  THEN SetTop([w EXCEPT !.objs[w.modules[r][f.m].exports] = Put(@, r, st.val)], r, next)
  ELSE IF st.op = "assign"
  THEN LET o == NewObject(w, [k \in {st.key} |-> st.val]) IN
       SetTop(o.W, r, [next EXCEPT !.modexp = o.id])
  ELSE IF st.op = "null"
  THEN SetTop(w, r, [next EXCEPT !.modexp = JSNull])
  ELSE IF st.op = "undefined"
  THEN SetTop(w, r, [next EXCEPT !.modexp = JSUndefined])
  ELSE IF st.op = "delete"
  THEN SetTop(w, r, [next EXCEPT !.modexp = JSNil])
  ELSE IF st.op = "throw"
  THEN BodyFails(w, r, f, Err("throw", rec.key, 0))
  ELSE RequireEnter(w, r, st.spec, URLSpec(w.reverse[f.m]), down)

(***************************************************************************)
(* Returns                                                                 *)
(***************************************************************************)
\* Require that overlooks a rejected evaluation
RequireResult_IgnoresRejection(w, r, f) ==
  IF w.recs[f.m].kind = "cjs"
  THEN [val |-> Val("object", w.modules[r][f.m].exports, EmptyMap), err |-> NoErr, panic |-> ""]
  ELSE [val |-> Val("namespace", f.m, EmptyMap), err |-> NoErr, panic |-> ""]

\* Require, lines 95-108: what the call returns once the evaluation was started
RequireResult(w, r, f) ==
  LET p == w.caps[r][f.m] IN
  IF p.st = "rejected" THEN [val |-> NoVal, err |-> p.err, panic |-> ""]
  ELSE IF w.recs[f.m].kind = "cjs"
  THEN [val |-> Val("object", w.modules[r][f.m].exports, EmptyMap), err |-> NoErr, panic |-> ""]
  ELSE [val |-> Val("namespace", f.m, EmptyMap), err |-> NoErr, panic |-> ""]

\* RunSourceData, lines 210-217
RunResult(w, r, f) ==
  LET p == w.caps[r][f.m] IN
  IF p.st = "rejected" THEN [val |-> NoVal, err |-> p.err, panic |-> ""]
  ELSE IF p.st = "fulfilled"
  THEN [val |-> Val("record", f.m, EmptyMap), err |-> NoErr, panic |-> ""]
  ELSE [val |-> NoVal, err |-> NoErr, panic |-> "TLA not supported in k6 at the moment"]

Result(w, r, f) ==
  IF f.path = "err" THEN [val |-> NoVal, err |-> f.err, panic |-> ""]
  ELSE IF f.path = "host" THEN [val |-> f.host, err |-> NoErr, panic |-> ""]
  ELSE IF f.call = "Require" THEN RequireResult(w, r, f)
  ELSE IF f.call = "Run" THEN RunResult(w, r, f)
  ELSE [val |-> NoVal, err |-> NoErr, panic |-> ""]

\* Require without the deferred restoration
Restore_Never(w, r, f) == w

\* Require, lines 45-47: the deferred restoration of the pointer
Restore(w, r, f) ==
  IF f.deferred THEN [w EXCEPT !.ptr[r] = f.currentPWD] ELSE w

\* the state of the evaluation a returning call saw
SeenState(w, r, f) ==
  IF f.path = "eval" /\ f.call # "Import" THEN w.caps[r][f.m] ELSE Promise("none", NoErr)

\* the caller's body goes on with the value, or ends with the error
Deliver(w, r, f, res) ==
  IF w.stack[r] = <<>> THEN w
  ELSE LET c == Top(w, r) IN
       IF res.err # NoErr THEN BodyFails(w, r, c, res.err)
       ELSE IF f.call = "Import"
       THEN IF f.async THEN SetTop(w, r, [c EXCEPT !.phase = "ret", !.async = TRUE])
            ELSE SetTop(w, r, [c EXCEPT !.pc = c.pc + 1])
       ELSE SetTop([w EXCEPT !.got[r] = Put(@, <<w.recs[c.m].key, w.recs[f.m].key>>, res.val)],
                   r, [c EXCEPT !.pc = c.pc + 1])

\* the innermost call returns
ReturnStep(w, r) ==
  LET f == Top(w, r)
      res == Result(w, r, f)
      w1 == Restore([w EXCEPT !.stack[r] = Front(@)], r, f)
      w2 == [w1 EXCEPT !.ret = [rt |-> r, call |-> f.call, spec |-> f.spec, m |-> f.m,
                                val |-> res.val, err |-> res.err,
                                seen |-> SeenState(w, r, f),
                                entry |-> f.entry, after |-> w1.ptr[r],
                                depth |-> Len(w.stack[r])]] IN
  IF res.panic # "" THEN Panic(w, res.panic)
  ELSE Deliver(w2, r, f, res)

(***************************************************************************)
(* The state machine                                                       *)
(***************************************************************************)
\* the sources RunSourceData is given: <<Locator, source name>>
RootSources ==
  { <<<<"a", "main.js">>, "main">>, <<<<"a", "main.js">>, "main2">>,
    <<<<"a", "x.js">>, "x">>, <<<<"a", "t.js">>, "t">> }

\* the specifiers the functions of a file pass to require when the host
\* calls them after the file's module ran
LateRequires ==
  ( <<"a", "main.js">> :>
      { <<".", "x.js">>, <<"/", "a", "x.js">>, <<".", "y.js">>, <<".", "lib", "u.js">>,
        <<".", "w.js">>, <<".", "n.js">>, <<".", "e.js">>, <<".", "t.js">>,
        <<".", "g.js">>, <<".", "h.js">>,
        <<".", "bad.js">>, <<".", "badc.js">>, <<".", "nofile.js">>,
        <<".", "%">>, <<>>,
        <<"k6">>, <<"k6", "http">>, <<"k6", "d">>, <<"k6", "x", "p">>, <<"k6", "nope">> } ) @@
  ( <<"a", "lib", "u.js">> :> { <<".", "v.js">>, <<"..", "x.js">> } )

\* no resolve call in progress
NoResolve == [pc |-> "idle", arg |-> <<>>, url |-> <<>>, data |-> "", mod |-> Nil, err |-> NoErr]

NoRet ==
  [rt |-> "", call |-> "", spec |-> <<>>, m |-> Nil, val |-> NoVal, err |-> NoErr,
   seen |-> Promise("none", NoErr), entry |-> <<>>, after |-> <<>>, depth |-> 0]

Init ==
  /\ cache = EmptyMap
  /\ reverse = EmptyMap
  /\ recs = <<>>
  /\ loads = EmptyMap
  /\ parses = EmptyMap
  /\ compiles = EmptyMap
  /\ canon = EmptyMap
  /\ log = {}
  /\ modules = [r \in Runtimes |-> EmptyMap]
  /\ caps = [r \in Runtimes |-> EmptyMap]
  /\ objs = <<>>
  /\ ptr = [r \in Runtimes |-> BaseDir]
  /\ stack = [r \in Runtimes |-> <<>>]
  /\ ret = NoRet
  /\ fatal = ""
  /\ ncalls = 0
  /\ execs = [r \in Runtimes |-> EmptyMap]
  /\ insts = [r \in Runtimes |-> EmptyMap]
  /\ got = [r \in Runtimes |-> EmptyMap]
  /\ reads = <<>>
  /\ thr = [r \in Runtimes |-> NoResolve]

Idle == fatal = "" /\ \A r \in Runtimes : stack[r] = <<>>

\* the files whose functions can be called in runtime r: their body has run
Callers(r) ==
  { reverse[m] : m \in { x \in DOMAIN caps[r] :
                          caps[r][x].st = "fulfilled" /\ x \in DOMAIN reverse } }
    \cap DOMAIN LateRequires

\* the host runs a source; the runtimes are alike, so the one that makes the
\* first call is named vu1
CallRunSourceData(r) ==
  /\ Idle
  /\ ncalls < MaxCalls
  /\ ncalls = 0 => r = "vu1"
  /\ \E src \in RootSources, down \in Outages :
       Commit(RunSourceData([World EXCEPT !.ncalls = @ + 1], r, src[1], src[2], down))

\* a function of an evaluated module calls require
CallRequire(r) ==
  /\ Idle
  /\ ncalls < MaxCalls
  /\ \E file \in Callers(r), down \in Outages :
     \E specifier \in LateRequires[file] :
       Commit(RequireEnter([World EXCEPT !.ncalls = @ + 1], r, specifier, URLSpec(file), down))

\* what the engine can do with a panic of the running body's last step
Recoveries(f) == IF f.modexp \in {JSUndefined, JSNil} THEN BOOLEAN ELSE {FALSE}

\* the running body executes its next statement
Step(r) ==
  /\ fatal = ""
  /\ stack[r] # <<>>
  /\ Top(World, r).phase = "body"
  /\ \E down \in Outages, recovered \in Recoveries(Top(World, r)) :
       Commit(BodyStep(World, r, down, recovered))

\* the innermost call returns
Return(r) ==
  /\ fatal = ""
  /\ stack[r] # <<>>
  /\ Top(World, r).phase = "ret"
  /\ Commit(ReturnStep(World, r))

Next ==
  \E r \in Runtimes :
    \/ CallRunSourceData(r)
    \/ CallRequire(r)
    \/ Step(r)
    \/ Return(r)

Spec == Init /\ [][Next]_vars

(***************************************************************************)
(* The bindings of host module instances: scripts run, their functions     *)
(* require built-in modules, and the engine reads bindings of the          *)
(* instances the runtime holds.                                            *)
(***************************************************************************)
\* the names a script reads from a host module
BindingNames == {"default", "x", "get"}

\* the host runs the script whose functions require the built-in modules
CallRunScript(r) ==
  /\ Idle
  /\ ncalls < MaxCalls
  /\ ncalls = 0 => r = "vu1"
  /\ Commit(RunSourceData([World EXCEPT !.ncalls = @ + 1], r, <<"a", "main.js">>, "main2", {}))

\* a function of an evaluated module requires a built-in module
CallRequireBuiltin(r) ==
  /\ Idle
  /\ ncalls < MaxCalls
  /\ \E file \in Callers(r) :
     \E specifier \in { sp \in LateRequires[file] : IsBuiltin(sp) } :
       Commit(RequireEnter([World EXCEPT !.ncalls = @ + 1], r, specifier, URLSpec(file), {}))

\* the engine reads a binding of a conforming host module instance
ReadBinding(r) ==
  /\ Idle
  /\ Len(reads) < MaxReads
  /\ \E m \in DOMAIN modules[r], name \in BindingNames :
       /\ modules[r][m].kind = "goModule"
       /\ Commit(ReadNoted(GetBindingValue(World, r, m, name), r, m, name))

NextBindings ==
  \E r \in Runtimes :
    \/ CallRunScript(r)
    \/ CallRequireBuiltin(r)
    \/ Step(r)
    \/ Return(r)
    \/ ReadBinding(r)

SpecBindings == Init /\ [][NextBindings]_vars

(***************************************************************************)
(* Factory modules run by the host: scripts whose bodies leave             *)
(* module.exports an object, null, undefined or absent, a script read from *)
(* the standard input, a script the Compiler rejects, and a script that    *)
(* requires a built-in module.                                             *)
(***************************************************************************)
\* the sources RunSourceData is given: <<Locator, source name>>
FactorySources ==
  { <<<<"a", "main.js">>, "main2">>, <<<<"a", "y.js">>, "y">>, <<<<"a", "n.js">>, "n">>,
    <<<<"a", "nu.js">>, "nu">>, <<<<"a", "na.js">>, "na">>,
    <<StdinURL, "main2">>, <<<<"a", "lib", "badc.js">>, "badc">>,
    <<<<"a", "own.js">>, "own">>, <<<<"a", "lib", "v.js">>, "v">> }

\* the host runs a factory module
CallRunFactory(r) ==
  /\ Idle
  /\ ncalls < MaxCalls
  /\ ncalls = 0 => r = "vu1"
  /\ \E src \in FactorySources :
       Commit(RunSourceData([World EXCEPT !.ncalls = @ + 1], r, src[1], src[2], {}))

NextFactory ==
  \E r \in Runtimes :
    \/ CallRunFactory(r)
    \/ Step(r)
    \/ Return(r)

SpecFactory == Init /\ [][NextFactory]_vars

(***************************************************************************)
(* One resolver shared by runtimes that run side by side: a resolve call   *)
(* is the sequence of its accesses to the resolver's maps and of its calls *)
(* to the Loader and the Compiler, and the calls of different runtimes     *)
(* interleave between them.                                                *)
(***************************************************************************)
\* the specifiers the runtimes resolve against the base
SharedSpecs == { <<".", "x.js">>, <<".", "e.js">>, <<".", "bad.js">>, <<".", "nofile.js">> }

\* the call of runtime r has returned
Returned(o, r, arg) ==
  Logged(Out([o.W EXCEPT !.thr[r] = NoResolve], o.mod, o.err), BaseDir, arg, {}).W

\* a write to a map of the resolver while another runtime is inside a
\* resolve call: the writes are not ordered, the run time may halt the process
Unguarded(r) == IF \E q \in Runtimes \ {r} : thr[q].pc # "idle" THEN BOOLEAN ELSE {FALSE}

Written(w, halted) == IF halted THEN Panic(w, "concurrent map writes") ELSE w

\* resolve, lines 110-116: the cache is asked for the Locator
resolveLookup(s, r, arg) ==
  IF s.err # NoErr THEN Returned(Out(s.W, Nil, s.err), r, arg)
  ELSE IF URLString(s.url) \in DOMAIN s.W.cache
  THEN Returned(Out(s.W, s.W.cache[URLString(s.url)].mod, s.W.cache[URLString(s.url)].err),
                r, arg)
  ELSE [s.W EXCEPT !.thr[r] = [NoResolve EXCEPT !.pc = "load", !.arg = arg, !.url = s.url]]

ResolveBegin(r) ==
  /\ fatal = ""
  /\ thr[r].pc = "idle"
  /\ ncalls < MaxCalls
  /\ \E arg \in SharedSpecs :
       Commit(resolveLookup(resolveSpecifier([World EXCEPT !.ncalls = @ + 1], BaseDir, arg),
                            r, arg))

\* resolve, lines 118-122: l is what the Loader returned
resolveLoad(l, r, t, halted) ==
  IF l.err # NoErr
  THEN Written(Returned(resolveFetched(l, t.url, BaseDir, t.arg), r, t.arg), halted)
  ELSE [l.W EXCEPT !.thr[r].pc = "loaded", !.thr[r].data = l.data]

ResolveLoad(r) ==
  /\ fatal = ""
  /\ thr[r].pc = "load"
  /\ \E down \in Outages, halted \in Unguarded(r) :
       Commit(resolveLoad(loadCJS(World, thr[r].url, thr[r].arg, down), r, thr[r], halted))

\* resolveLoaded, lines 68-75: the cache is asked again
resolveLoadedLookup(s, r, t) ==
  IF URLString(s.url) \in DOMAIN s.W.cache
  THEN Returned(Out(s.W, s.W.cache[URLString(s.url)].mod, s.W.cache[URLString(s.url)].err),
                r, t.arg)
  ELSE [s.W EXCEPT !.thr[r].pc = "compile"]

ResolveLoadedLookup(r) ==
  /\ fatal = ""
  /\ thr[r].pc = "loaded"
  /\ Commit(resolveLoadedLookup(resolveSpecifier(World, BaseDir, thr[r].arg), r, thr[r]))

\* resolveLoaded, lines 81-86: c is the record made
resolveLoadedMade(c, r) ==
  [c.W EXCEPT !.thr[r].pc = "store", !.thr[r].mod = c.mod, !.thr[r].err = c.err]

\* resolveLoaded, lines 76-86: p is what Compiler.Parse returned
resolveLoadedCompile(p, r, t, halted) ==
  IF p.err # NoErr
  THEN Written(Returned(resolveLoadedParsed(p, t.url, t.data), r, t.arg), halted)
  ELSE resolveLoadedMade(IF p.isESM THEN ModuleFromAST(p.W, URLString(t.url), t.data)
                         ELSE cjsModuleFromString(p.W, URLString(t.url), t.data), r)

ResolveCompile(r) ==
  /\ fatal = ""
  /\ thr[r].pc = "compile"
  /\ \E halted \in Unguarded(r) :
       Commit(resolveLoadedCompile(Parse(World, URLString(thr[r].url), thr[r].data),
                                   r, thr[r], halted))

\* resolveLoaded, lines 87-89: the reverse map and the cache are written
ResolveStore(r) ==
  /\ fatal = ""
  /\ thr[r].pc = "store"
  /\ \E halted \in Unguarded(r) :
       Commit(Written(Returned(resolveLoadedStore(Out(World, thr[r].mod, thr[r].err),
                                                  thr[r].url),
                               r, thr[r].arg), halted))

NextShared ==
  \E r \in Runtimes :
    \/ ResolveBegin(r)
    \/ ResolveLoad(r)
    \/ ResolveLoadedLookup(r)
    \/ ResolveCompile(r)
    \/ ResolveStore(r)

SpecShared == Init /\ [][NextShared]_vars

(***************************************************************************)
(* Properties of the resolver                                              *)
(***************************************************************************)
\* a logged resolve call whose specifier is outside the built-in namespace
\* and could be made canonical; the cache key of the Locator it names
Canonical(a) == a.key # <<>>
KeyOf(a) == a.key
SameLocator(a, b) == Canonical(a) /\ a.key = b.key

\* a logged resolve call whose specifier could not be made canonical
Unresolvable(a) == a.key = <<>> /\ ~IsBuiltin(a.arg)

\* the cache keys for which the Loader or the Compiler was called
Worked == DOMAIN loads \cup DOMAIN parses \cup DOMAIN compiles

\* C1: any two resolve calls with non-built-in specifiers that canonicalize
\* to the same Locator return the same record, and for every Locator the
\* Loader, Compiler.Parse and Compiler.Compile are each called at most once.
C1_SameRecordWorkOnce ==
  /\ \A k \in { a.key : a \in log } \ {<<>>} :
       \A a, b \in { c \in log : c.key = k } : a.mod = b.mod
  /\ \A k \in Worked :
       Count(loads, k) <= 1 /\ Count(parses, k) <= 1 /\ Count(compiles, k) <= 1

\* C1 happens: two differently written specifiers named one file, both calls
\* returned its record, and the file was loaded and compiled once
C1_Witness ==
  \E a, b \in log :
    /\ SameLocator(a, b) /\ a.arg # b.arg
    /\ a.mod # Nil /\ a.mod = b.mod
    /\ Count(loads, KeyOf(a)) = 1 /\ Count(compiles, KeyOf(a)) = 1

\* C2: once the Loader or the Compiler failed for a Locator, every later
\* resolve of that Locator returns that same error and no record, and neither
\* the failed stage nor a later one is run again for it.
C2_StickyFailure ==
  /\ \A a \in { c \in log : Canonical(c) /\ c.err # NoErr } :
       \A b \in { c \in log : c.key = a.key /\ a.i < c.i } :
         b.err = a.err /\ b.mod = Nil
  /\ \A k \in DOMAIN cache :
       /\ cache[k].err.kind = "load" =>
            Count(loads, k) = 1 /\ Count(parses, k) = 0 /\ Count(compiles, k) = 0
       /\ cache[k].err.kind = "parse" =>
            Count(loads, k) <= 1 /\ Count(parses, k) = 1 /\ Count(compiles, k) = 0
       /\ cache[k].err.kind = "compile" =>
            Count(loads, k) <= 1 /\ Count(parses, k) = 1 /\ Count(compiles, k) = 1

\* C2 happens: a file could not be read, and a later resolve of it, made
\* when it could have been read, returned the first error without a load
C2_Witness ==
  \E a, b \in log :
    /\ SameLocator(a, b) /\ a.i < b.i
    /\ a.err.kind = "load" /\ ~a.up
    /\ b.err = a.err /\ b.up
    /\ Count(loads, KeyOf(a)) = 1

\* C3 as stated: the error of a specifier that cannot be made canonical is
\* recorded in the cache, and the canonicalization of that specifier against
\* that base is done once however often it is resolved.
C3_ResolutionErrorCached ==
  \A a \in log :
    Unresolvable(a) =>
      /\ a.err.kind = "resolve"
      /\ \E k \in DOMAIN cache : cache[k].err = a.err
      /\ Count(canon, <<a.base, a.arg>>) <= 1

\* C3 amended: a resolve call whose specifier cannot be made canonical
\* returns the resolution error and no record; the error is not stored in the
\* cache, and every resolve of that specifier against that base does the
\* canonicalization again (and returns the same error).
C3_ResolutionErrorNotCached ==
  /\ \A k \in DOMAIN cache : cache[k].err.kind # "resolve"
  /\ \A a \in log :
       Unresolvable(a) =>
         /\ a.mod = Nil
         /\ a.err = LoaderResolve(a.base, a.arg).err
         /\ Count(canon, <<a.base, a.arg>>) =
              Cardinality({b \in log : b.base = a.base /\ b.arg = a.arg})

\* C3 happens: one malformed specifier was resolved twice against one base
C3_Witness ==
  \E a, b \in log :
    /\ Unresolvable(a) /\ a.i # b.i
    /\ b.base = a.base /\ b.arg = a.arg
    /\ Count(canon, <<a.base, a.arg>>) = 2

\* C4: a resolve of a specifier in the built-in namespace never canonicalizes
\* it and never calls the Loader or the Compiler (all their calls are for
\* Locators of other resolve calls); it returns the record made for that name
\* from the table, the same on every resolve, and for a name the table lacks
\* the "unknown module" error, stored in the cache under that name.
C4_BuiltinBypass ==
  /\ \A p \in DOMAIN canon : ~IsBuiltin(p[2])
  /\ \A k \in Worked : \E a \in log : Canonical(a) /\ KeyOf(a) = k
  /\ \A a \in log :
       IsBuiltin(a.arg) =>
         /\ a.arg \in DOMAIN cache
         /\ cache[a.arg] = [mod |-> a.mod, err |-> a.err]
         /\ a.arg \in DOMAIN goModules =>
              /\ a.err = NoErr /\ a.mod # Nil
              /\ recs[a.mod].key = a.arg
              /\ recs[a.mod].kind \in {"goModule", "baseGoModule"}
         /\ a.arg \notin DOMAIN goModules =>
              a.mod = Nil /\ a.err = Err("unknown module", a.arg, 0)
  /\ \A a \in { c \in log : IsBuiltin(c.arg) } :
       \A b \in { c \in log : c.arg = a.arg } : a.mod = b.mod /\ a.err = b.err

\* C4 happens: a name of the table was resolved twice, and a name the table
\* lacks was resolved
C4_Witness ==
  /\ \E a, b \in log :
       /\ IsBuiltin(a.arg) /\ a.arg \in DOMAIN goModules
       /\ a.i # b.i /\ b.arg = a.arg /\ a.mod = b.mod /\ a.mod # Nil
  /\ \E c \in log :
       /\ IsBuiltin(c.arg) /\ c.arg \notin DOMAIN goModules
       /\ c.arg \in DOMAIN cache /\ cache[c.arg].err.kind = "unknown module"

(***************************************************************************)
(* Properties of RunSourceData and Require                                 *)
(***************************************************************************)
\* true of a step that enters RunSourceData in runtime r
RunEntered(r) ==
  ncalls' = ncalls + 1 /\ stack'[r] # <<>> /\ stack'[r][1].call = "Run"

\* C5: a step that enters RunSourceData never calls the Loader for the root's
\* Locator and leaves an outcome in the cache under it; the call goes on with
\* that outcome, which the resolve of the root specifier returned from the
\* cache; an outcome already in the cache is kept, and the bytes given are
\* then neither parsed nor compiled.
C5_RootRegisteredFirst ==
  [][\A r \in Runtimes :
       RunEntered(r) =>
         LET f == stack'[r][1]
             k == URLString(Tail(f.spec)) IN
         /\ Count(loads', k) = Count(loads, k)
         /\ k \in DOMAIN cache'
         /\ cache'[k].err # NoErr => f.m = Nil /\ f.err = cache'[k].err
         /\ cache'[k].err = NoErr =>
              /\ f.m = cache'[k].mod
              /\ \E a \in log' \ log : a.arg = f.spec /\ a.mod = f.m /\ a.err = NoErr
         /\ k \in DOMAIN cache =>
              /\ cache'[k] = cache[k]
              /\ Count(parses', k) = Count(parses, k)
              /\ Count(compiles', k) = Count(compiles, k)
         /\ k \notin DOMAIN cache => Count(parses', k) = 1
    ]_vars

\* C5 happens: RunSourceData was entered for a root whose record another
\* runtime had evaluated before; the root was compiled once and never loaded
C5_Witness ==
  \E r \in Runtimes, r2 \in Runtimes :
    /\ r # r2
    /\ Len(stack[r]) = 1 /\ stack[r][1].call = "Run" /\ stack[r][1].pc = 1
    /\ stack[r][1].m # Nil
    /\ stack[r][1].m \in DOMAIN caps[r2]
    /\ Count(loads, URLString(Tail(stack[r][1].spec))) = 0
    /\ Count(parses, URLString(Tail(stack[r][1].spec))) = 1

\* the specifiers the module stored under cache key k requests
Requested(k) ==
  IF k \in DOMAIN cache /\ cache[k].mod # Nil /\ recs[cache[k].mod].kind \in {"cjs", "esm"}
  THEN { st.spec : st \in { Program(recs[cache[k].mod].src)[i] :
                            i \in 1..Len(Program(recs[cache[k].mod].src)) } \cap
                          { st \in { Program(recs[cache[k].mod].src)[i] :
                                     i \in 1..Len(Program(recs[cache[k].mod].src)) } :
                              st.op \in {"require", "import"} } }
  ELSE {}

\* the cache keys the requests of the module under k name
DependsOn(k) ==
  { IF IsBuiltin(sp) THEN sp
    ELSE URLString(LoaderResolve(JoinPathUp(reverse[cache[k].mod]), sp).url) :
      sp \in { q \in Requested(k) :
                 IsBuiltin(q) \/ LoaderResolve(JoinPathUp(reverse[cache[k].mod]), q).err = NoErr } }

RECURSIVE Graph(_, _)
Graph(S, n) ==
  IF n = 0 THEN S ELSE Graph(S \cup UNION { DependsOn(k) : k \in S }, n - 1)

\* error e arose in the module under key k or in a module k depends on
StemsFrom(e, k) ==
  \E d \in Graph({k}, Cardinality(DOMAIN cache)) :
    e.at = d \/ (e.kind = "resolve" /\ e.at \in Requested(d))

\* C6: a call that saw its evaluation rejected returned the rejection value
\* as its error and no value; RunSourceData returned a record only for a
\* fulfilled evaluation; an error a nested call returned ended the caller's
\* body with that same error; and every rejection arose in the rejected
\* module or in a module it depends on.
C6_RejectionReturned ==
  /\ ret.seen.st = "rejected" => ret.err = ret.seen.err /\ ret.val = NoVal
  /\ ret.call = "Run" /\ ret.val # NoVal =>
       ret.seen.st = "fulfilled" /\ ret.val = Val("record", ret.m, EmptyMap)
  /\ ret.err # NoErr /\ ret.depth > 1 /\ Len(stack[ret.rt]) = ret.depth - 1 =>
       LET c == stack[ret.rt][ret.depth - 1] IN
       /\ c.phase = "ret"
       /\ c.call = "Import" => c.err = ret.err
       /\ c.call # "Import" => caps[ret.rt][c.m] = Rejected(ret.err)
  /\ \A r \in Runtimes : \A m \in DOMAIN caps[r] :
       caps[r][m].st = "rejected" => StemsFrom(caps[r][m].err, recs[m].key)

\* C6 happens: in a runtime where a module was rejected with the error its
\* dependency threw, a later Require of another module returned its exports
C6_Witness ==
  /\ ret.call = "Require" /\ ret.depth = 1
  /\ ret.seen.st = "fulfilled" /\ ret.val.t = "object"
  /\ \E m \in DOMAIN caps[ret.rt] :
       /\ caps[ret.rt][m].st = "rejected"
       /\ caps[ret.rt][m].err.kind = "throw"
       /\ caps[ret.rt][m].err.at # recs[m].key

\* C7 as stated: no call returns while the evaluation it drove is pending
\* (a call that meets a pending evaluation halts the process instead).
C7_PendingIsFatal == ret.seen.st # "pending"

\* RunSourceData is about to return in r and the evaluation it drove is pending
RunPending(r) ==
  /\ fatal = "" /\ stack[r] # <<>>
  /\ stack[r][Len(stack[r])].call = "Run"
  /\ stack[r][Len(stack[r])].phase = "ret"
  /\ stack[r][Len(stack[r])].path = "eval"
  /\ caps[r][stack[r][Len(stack[r])].m].st = "pending"

\* What the code does where C7 fails: RunSourceData halts the process when
\* the evaluation it drove is pending; a call that returned while its
\* evaluation was pending was a Require of a factory or graph module, and it
\* returned without an error the instance's current exports object (factory)
\* or the namespace (graph).
PendingFatalButForRequire ==
  /\ [][\A r \in Runtimes :
          RunPending(r) => fatal' = "TLA not supported in k6 at the moment"]_vars
  /\ [](ret.seen.st = "pending" =>
          /\ ret.call = "Require" /\ ret.err = NoErr
          /\ recs[ret.m].kind \in {"cjs", "esm"}
          /\ recs[ret.m].kind = "cjs" => ret.val.t = "object"
          /\ recs[ret.m].kind = "esm" => ret.val = Val("namespace", ret.m, EmptyMap))

\* C7 fails: a Require of a module that awaits at its top level returned
\* its namespace while the evaluation was pending, and a RunSourceData of
\* that module then halted the process
C7_Witness ==
  /\ ret.call = "Require" /\ ret.seen.st = "pending" /\ ret.val.t = "namespace"
  /\ Sources[recs[ret.m].src].tla
  /\ fatal = "TLA not supported in k6 at the moment"

\* C8: in every runtime each record is instantiated at most once and the body
\* stored under each cache key runs at most once; a Require that finds the
\* factory module evaluated returns the instance's exports object, and that
\* object and its contents stay what they were when the evaluation finished.
C8_OncePerRuntime ==
  /\ [](\A r \in Runtimes :
          /\ \A m \in DOMAIN insts[r] : insts[r][m] <= 1
          /\ \A k \in DOMAIN execs[r] : execs[r][k] <= 1)
  /\ [](ret.call = "Require" /\ ret.val.t = "object" /\ ret.seen.st = "fulfilled" =>
          ret.val.id = modules[ret.rt][ret.m].exports)
  /\ [][\A r \in Runtimes : \A m \in DOMAIN caps[r] :
          caps[r][m].st = "fulfilled" /\ recs[m].kind = "cjs" =>
            /\ modules'[r][m].exports = modules[r][m].exports
            /\ objs'[modules[r][m].exports] = objs[modules[r][m].exports]]_vars

\* C8 happens: a function required a factory module that a body had required
\* before, and got the object the body got; the module's body ran once
C8_Witness ==
  /\ ret.call = "Require" /\ ret.depth = 1
  /\ ret.val.t = "object" /\ ret.seen.st = "fulfilled"
  /\ Count(execs[ret.rt], recs[ret.m].key) = 1
  /\ \E p \in DOMAIN got[ret.rt] : p[2] = recs[ret.m].key /\ got[ret.rt][p] = ret.val

\* the two files that require each other
XKey == URLString(<<"a", "x.js">>)
YKey == URLString(<<"a", "y.js">>)

\* the final exports object, and the one handed to the body, of the module under k
Final(r, k) == modules[r][cache[k].mod].exports
Initial(r, k) == modules[r][cache[k].mod].initial

\* the evaluation of the module under k is fulfilled in r
Evaluated(r, k) ==
  /\ k \in DOMAIN cache /\ cache[k].mod # Nil
  /\ cache[k].mod \in DOMAIN caps[r]
  /\ caps[r][cache[k].mod].st = "fulfilled"

\* both bodies have run in r and each has required the other
CycleDone(r) ==
  /\ Evaluated(r, XKey) /\ Evaluated(r, YKey)
  /\ <<XKey, YKey>> \in DOMAIN got[r] /\ <<YKey, XKey>> \in DOMAIN got[r]

\* what the source sets on the exports object it is handed, what it replaces
\* module.exports with, and so what its exports should be in the end
Statements(src) == { Sources[src].body[i] : i \in 1..Len(Sources[src].body) }
Replaces(src) == \E st \in Statements(src) : st.op = "assign"
SetInPlace(src) ==
  [k \in { st.key : st \in { q \in Statements(src) : q.op = "set" } } |->
     (CHOOSE st \in Statements(src) : st.op = "set" /\ st.key = k).val]
Replacement(src) ==
  [k \in { st.key : st \in { q \in Statements(src) : q.op = "assign" } } |->
     (CHOOSE st \in Statements(src) : st.op = "assign" /\ st.key = k).val]
Assigned(src) == IF Replaces(src) THEN Replacement(src) ELSE SetInPlace(src)

\* C9 as stated: when both bodies have run, each once, what each module got
\* from requiring the other holds the values the other assigned.
C9_CycleSeesAssignedValues ==
  \A r \in Runtimes :
    CycleDone(r) =>
      /\ execs[r][XKey] = 1 /\ execs[r][YKey] = 1
      /\ objs[got[r][<<YKey, XKey>>].id] = Assigned("x")
      /\ objs[got[r][<<XKey, YKey>>].id] = Assigned("y")

\* C9 amended: the calls in progress stay bounded and neither body runs
\* twice; when both have run, each ran once and the final exports of each
\* hold what it assigned; one of the two (the one entered first) got the
\* other's final exports; what a module got is the other's final exports
\* object or the object the other's body was handed at its start, the latter
\* only if the other replaces module.exports, and then it holds just what the
\* other set on it in place.
C9_CycleSeesExportsObject ==
  \A r \in Runtimes :
    /\ Len(stack[r]) <= 4
    /\ Count(execs[r], XKey) <= 1 /\ Count(execs[r], YKey) <= 1
    /\ CycleDone(r) =>
         /\ execs[r][XKey] = 1 /\ execs[r][YKey] = 1
         /\ objs[Final(r, XKey)] = Assigned("x")
         /\ objs[Final(r, YKey)] = Assigned("y")
         /\ \/ got[r][<<XKey, YKey>>].id = Final(r, YKey)
            \/ got[r][<<YKey, XKey>>].id = Final(r, XKey)
         /\ \A p \in {<<XKey, YKey, "y">>, <<YKey, XKey, "x">>} :
              \/ got[r][<<p[1], p[2]>>].id = Final(r, p[2])
              \/ /\ got[r][<<p[1], p[2]>>].id = Initial(r, p[2])
                 /\ Replaces(p[3])
                 /\ objs[Initial(r, p[2])] = SetInPlace(p[3])

\* C9 happens: both bodies have run, and the module entered second holds the
\* empty object the first was handed, not the first's final exports
C9_Witness ==
  \E r \in Runtimes :
    /\ CycleDone(r)
    /\ got[r][<<XKey, YKey>>].id # Final(r, YKey)
    /\ objs[got[r][<<XKey, YKey>>].id] = EmptyMap
    /\ got[r][<<YKey, XKey>>].id = Final(r, XKey)

\* C10: while the process runs, the pointer is at the base whenever no call
\* is in progress; every Require returned with the pointer at the value it
\* had when the call was entered; and a Require of a built-in specifier
\* registers no restoration and has the pointer at its entry value.
C10_PointerRestored ==
  /\ \A r \in Runtimes : fatal = "" /\ stack[r] = <<>> => ptr[r] = BaseDir
  /\ ret.call = "Require" => ret.after = ret.entry
  /\ \A r \in Runtimes :
       stack[r] # <<>> /\ stack[r][Len(stack[r])].call = "Require"
         /\ IsBuiltin(stack[r][Len(stack[r])].spec) =>
           /\ ~stack[r][Len(stack[r])].deferred
           /\ ptr[r] = stack[r][Len(stack[r])].entry

\* C10 happens: a nested Require that had moved the pointer to another
\* directory returned an error, and the pointer was back at its entry value
C10_Witness ==
  /\ ret.call = "Require" /\ ret.depth >= 2 /\ ret.err # NoErr
  /\ LoaderResolve(ret.entry, ret.spec).err = NoErr
  /\ LoaderDir(LoaderResolve(ret.entry, ret.spec).url) # ret.entry
  /\ ret.after = ret.entry /\ ptr[ret.rt] = ret.entry

(***************************************************************************)
(* Properties of the legacy resolution base                                *)
(***************************************************************************)
\* the positions in the stack of r of the Requires, outside the built-in
\* namespace, that a running body called
NestedRequires(r) ==
  { i \in 2..Len(stack[r]) :
      /\ stack[r][i].call = "Require" /\ ~IsBuiltin(stack[r][i].spec)
      /\ stack[r][i - 1].m # Nil }

\* the Locator the specifier of the Require at position i names, relative to
\* the directory of the file whose body called it
ExpectedLocator(r, i) ==
  LoaderResolve(JoinPathUp(reverse[stack[r][i - 1].m]), stack[r][i].spec).url

\* a Require outside the built-in namespace runs the body it loaded, innermost in r
RunsRequiredBody(r) ==
  /\ stack[r] # <<>>
  /\ stack[r][Len(stack[r])].call = "Require"
  /\ ~IsBuiltin(stack[r][Len(stack[r])].spec)
  /\ stack[r][Len(stack[r])].phase = "body"

EntersEmptyRequire(r) ==
  /\ Len(stack'[r]) = Len(stack[r]) + 1
  /\ stack'[r][Len(stack'[r])].call = "Require"
  /\ stack'[r][Len(stack'[r])].spec = <<>>

\* runtime r returns from Require with the empty specifier in this step
LeavesEmptyRequire(r) ==
  /\ stack[r] # <<>>
  /\ Len(stack'[r]) = Len(stack[r]) - 1
  /\ stack[r][Len(stack[r])].call = "Require"
  /\ stack[r][Len(stack[r])].spec = <<>>

\* the cache, the records, the work of the Loader and the Compiler, and what
\* the runtimes linked and evaluated
ResolverAndEngine ==
  <<cache, reverse, recs, loads, parses, compiles, canon, log, modules, caps, objs,
    execs, insts, got>>

\* C12: Require("") returns an error at once: the call ends with an error on
\* its first step, the cache is neither consulted nor modified, neither the
\* Loader nor the Compiler is invoked, nothing is linked or evaluated, and
\* the pointer after the call equals the pointer before it
C12_EmptySpecifierRejected ==
  [][\A r \in Runtimes :
       /\ EntersEmptyRequire(r) =>
            /\ stack'[r][Len(stack'[r])].err # NoErr
            /\ stack'[r][Len(stack'[r])].phase = "ret"
            /\ stack'[r][Len(stack'[r])].entry = ptr[r]
            /\ UNCHANGED ResolverAndEngine
       /\ LeavesEmptyRequire(r) =>
            /\ ret'.call = "Require" /\ ret'.spec = <<>>
            /\ ret'.err # NoErr /\ ret'.val = NoVal
            /\ ptr'[r] = stack[r][Len(stack[r])].entry
            /\ UNCHANGED ResolverAndEngine]_vars

C12_Witness ==
  /\ ret.call = "Require" /\ ret.spec = <<>>
  /\ ret.err # NoErr
  /\ cache # EmptyMap
  /\ ret.after = ret.entry


(***************************************************************************)
(* Properties of the exports of host modules                               *)
(***************************************************************************)
\* the last call was a Require that returned the exports of a conforming host module
ReturnedHostExports ==
  /\ ret.call = "Require" /\ ret.err = NoErr
  /\ ret.m # Nil /\ recs[ret.m].kind = "goModule"

\* the Exports record of the conforming host module behind record m
ExportsOf(m) == goModules[recs[m].key].exports

\* C13: the flat object Require returns for a conforming host module is the
\* named mapping when only named exports are present, the default value when
\* only a default is present, and otherwise a new object with every named
\* entry, the key default bound to the default value and __esModule true
C13_FlatExports ==
  ReturnedHostExports =>
    LET exp == ExportsOf(ret.m) IN
    /\ (exp.hasNamed /\ ~exp.hasDefault) =>
          ret.val.t = "map" /\ ret.val.map = exp.Named
    /\ (~exp.hasNamed /\ exp.hasDefault) =>
          ret.val.t = "value" /\ ret.val.id = exp.Default
    /\ (exp.hasNamed /\ exp.hasDefault) =>
          /\ ret.val.t = "map"
          /\ DOMAIN ret.val.map = (DOMAIN exp.Named) \cup {"default", "__esModule"}
          /\ \A k \in DOMAIN exp.Named : ret.val.map[k] = exp.Named[k]
          /\ ret.val.map["default"] = exp.Default
          /\ ret.val.map["__esModule"] = JSTrue

C13_Witness ==
  /\ ReturnedHostExports
  /\ ExportsOf(ret.m).hasNamed /\ ExportsOf(ret.m).hasDefault
  /\ ExportsOf(ret.m).Named # EmptyMap
  /\ "__esModule" \in DOMAIN ret.val.map


\* the reads of binding name of the instance of record m in runtime r, in order
ReadsOf(r, m, name) ==
  { i \in 1..Len(reads) : reads[i].rt = r /\ reads[i].m = m /\ reads[i].name = name }

\* record m is a conforming host module with named exports and no default
NamedOnly(m) ==
  /\ recs[m].kind = "goModule"
  /\ ExportsOf(m).hasNamed /\ ~ExportsOf(m).hasDefault /\ ExportsOf(m).Named # EmptyMap

\* C14: for a conforming host module instance with no Default and a
\* non-empty Named mapping, every read of the default binding yields an
\* object holding exactly the named entries, and all reads of default on one
\* instance yield the identical object, whatever named bindings are read
\* in between
C14_DefaultMemoized ==
  \A i \in 1..Len(reads) :
    (reads[i].name = "default" /\ NamedOnly(reads[i].m)) =>
      /\ reads[i].val.t = "object"
      /\ objs[reads[i].val.id] = ExportsOf(reads[i].m).Named
      /\ \A j \in ReadsOf(reads[i].rt, reads[i].m, "default") : reads[j].val = reads[i].val

C14_Witness ==
  \E i, j, k \in 1..Len(reads) :
    /\ i < k /\ k < j
    /\ reads[i].name = "default" /\ reads[j].name = "default" /\ reads[k].name = "x"
    /\ reads[i].rt = reads[j].rt /\ reads[i].m = reads[j].m
    /\ reads[k].rt = reads[i].rt /\ reads[k].m = reads[i].m
    /\ NamedOnly(reads[i].m)
    /\ reads[i].val = reads[j].val /\ reads[i].val.t = "object"


(***************************************************************************)
(* Properties of the exports of factory modules                            *)
(***************************************************************************)
\* the statement that decides module.exports of source src, if it has one
Leaves(src, op) ==
  \E i \in 1..Len(Sources[src].body) :
    /\ Sources[src].body[i].op = op
    /\ \A j \in (i + 1)..Len(Sources[src].body) :
         Sources[src].body[j].op \notin {"assign", "null", "undefined", "delete"}

\* the body of source src finishes with module.exports null, undefined or absent
Nullish(src) == Leaves(src, "null") \/ Leaves(src, "undefined") \/ Leaves(src, "delete")

\* the evaluation of record m in runtime r ended with the invalid-exports error
InvalidExports(r, m) ==
  /\ m \in DOMAIN caps[r]
  /\ caps[r][m].st = "rejected"
  /\ caps[r][m].err.kind = "exports must be an object"

\* the body of record m is still to finish in runtime r
StillRuns(r, m) ==
  \E i \in 1..Len(stack[r]) : stack[r][i].m = m /\ stack[r][i].phase = "body"

\* C15: the evaluation of a factory module whose body finishes with
\* module.exports null, undefined or absent ends with an ordinary returned
\* invalid-exports error: it is neither a success nor a fatal error
C15_NullishExportsRejected ==
  \A r \in Runtimes : \A m \in DOMAIN caps[r] :
    (recs[m].kind = "cjs" /\ Nullish(recs[m].src)) =>
      /\ fatal = ""
      /\ StillRuns(r, m) \/ InvalidExports(r, m)

\* what the code does: only null is taken for invalid exports; undefined or
\* absent exports end the evaluation with a panic, which is fatal unless
\* the engine turns it into a different error
C15_OnlyNullRejected ==
  \A r \in Runtimes : \A m \in DOMAIN caps[r] :
    (recs[m].kind = "cjs" /\ ~StillRuns(r, m)) =>
      /\ Leaves(recs[m].src, "null") => InvalidExports(r, m)
      /\ (Leaves(recs[m].src, "undefined") \/ Leaves(recs[m].src, "delete")) =>
            /\ ~InvalidExports(r, m)
            /\ caps[r][m].st # "fulfilled"
            /\ fatal # "" \/ (caps[r][m].st = "rejected" /\ caps[r][m].err.kind = "TypeError")

\* the body that set module.exports to undefined has finished
C15_Witness ==
  \E r \in Runtimes : \E m \in DOMAIN caps[r] :
    /\ recs[m].kind = "cjs" /\ Leaves(recs[m].src, "undefined")
    /\ ~StillRuns(r, m)
    /\ ~InvalidExports(r, m)
    /\ ret.call = "Run" /\ ret.m = m /\ ret.err.kind = "TypeError"


(***************************************************************************)
(* Properties of the shared resolver                                       *)
(***************************************************************************)
\* the records made for cache key k
RecordsOf(k) == { m \in 1..Len(recs) : recs[m].key = k }

\* C16: when runtimes that share the resolver resolve the same Locator
\* side by side, the Loader and the Compiler run at most once for it, its
\* cache entry has a single writer (one record is made for it and the
\* process is not halted by unordered writes), and every caller receives
\* the identical record
C16_MissPathGuarded ==
  /\ fatal = ""
  /\ \A k \in DOMAIN loads : loads[k] <= 1
  /\ \A k \in DOMAIN parses : parses[k] <= 1
  /\ \A k \in DOMAIN compiles : compiles[k] <= 1
  /\ \A k \in DOMAIN cache : Cardinality(RecordsOf(k)) <= 1
  /\ \A a, b \in log : (a.key = b.key /\ a.key # <<>>) => (a.mod = b.mod /\ a.err = b.err)

\* two runtimes resolved the same Locator side by side and received different records
C16_Witness ==
  \E a, b \in log :
    /\ a.key = b.key /\ a.key # <<>>
    /\ a.err = NoErr /\ b.err = NoErr
    /\ a.mod # b.mod
    /\ loads[a.key] = 2 /\ compiles[a.key] = 2
    /\ cache[a.key].mod \in {a.mod, b.mod}


(***************************************************************************)
(* Properties of Require of a host module                                  *)
(***************************************************************************)
\* the last call was a Require that returned the exports of a host module
ReturnedHost(kinds) ==
  /\ ret.call = "Require" /\ ret.err = NoErr
  /\ ret.m # Nil /\ recs[ret.m].kind \in kinds

\* the runtime of the last call holds one instance of the record, made once
InstanceMadeOnce ==
  /\ ret.m \in DOMAIN modules[ret.rt]
  /\ Count(insts[ret.rt], ret.m) = 1

\* C17: Require of a host module of either kind, conforming or not, obtains
\* its instance, made only if the runtime had none, and returns the exports
\* bridged into a flat object, never the engine's namespace view
C17_HostExportsFlat ==
  ReturnedHost({"goModule", "baseGoModule"}) =>
    /\ InstanceMadeOnce
    /\ ret.val.t \in {"map", "value"}

\* what the code does: only a conforming host module is bridged; a
\* non-conforming one is evaluated like a graph module and its namespace
\* view is returned
C17_OnlyConformingFlat ==
  /\ ReturnedHost({"goModule"}) =>
        InstanceMadeOnce /\ ret.val = toESModuleExports(ExportsOf(ret.m))
  /\ ReturnedHost({"baseGoModule"}) =>
        InstanceMadeOnce /\ ret.val = Val("namespace", ret.m, EmptyMap)

\* Require of the non-conforming host module has returned
C17_Witness ==
  /\ ReturnedHost({"baseGoModule"})
  /\ InstanceMadeOnce
  /\ ret.val.t = "namespace"


(***************************************************************************)
(* Properties of Imported                                                  *)
(***************************************************************************)
\* the elements of a list
Elements(seq) == { seq[i] : i \in 1..Len(seq) }

\* no element of the list occurs twice
EachOnce(seq) == \A i, j \in 1..Len(seq) : seq[i] = seq[j] => i = j

\* the Locators, as cache keys, of the modules some resolve call returned
ResolvedLocators == { a.key : a \in { b \in log : b.key # <<>> /\ b.err = NoErr } }

\* what the resolve calls asked for, by cache key: the Locator of a file, the
\* name of a built-in module; whether the call found a module or not
AskedFor ==
  { (IF IsBuiltin(a.arg) THEN a.arg ELSE a.key) :
      a \in { b \in log : IsBuiltin(b.arg) \/ b.key # <<>> } }

ParentDir(url) == SubSeq(url, 1, Len(url) - 1)

\* C19: after any resolutions, failed ones included, a resolution for the
\* nil handle uses the configured base, and a resolution for a cached record
\* with Locator L uses the parent directory of L, the base if L is file://-
C19_BaseOfResolution ==
  /\ reversePath(World, Nil).dir = BaseDir
  /\ \A m \in { x \in 1..Len(recs) : recs[x].kind \in {"cjs", "esm"} } :
       /\ ~reversePath(World, m).panic
       /\ reversePath(World, m).dir =
            IF reverse[m] = StdinURL THEN BaseDir ELSE ParentDir(reverse[m])

\* what the code does: the claim holds for the records, and for the nil
\* handle until a file fails to compile; from then on the nil handle
\* resolves against the directory of the file that failed last
C19_NilHandleAfterFailure ==
  /\ \A m \in { x \in 1..Len(recs) : recs[x].kind \in {"cjs", "esm"} } :
       /\ ~reversePath(World, m).panic
       /\ reversePath(World, m).dir =
            IF reverse[m] = StdinURL THEN BaseDir ELSE ParentDir(reverse[m])
  /\ Nil \notin DOMAIN reverse => reversePath(World, Nil).dir = BaseDir
  /\ Nil \in DOMAIN reverse =>
       /\ cache[URLString(reverse[Nil])].err.kind \in {"compile", "ast"}
       /\ reversePath(World, Nil).dir = ParentDir(reverse[Nil])

\* a file outside the base failed to compile, and a later Require resolved
\* the requiring file for the nil handle against that file's directory
C19_Witness ==
  /\ Nil \in DOMAIN reverse
  /\ reversePath(World, Nil).dir # BaseDir
  /\ \E a \in log : a.arg = URLSpec(<<"a", "y.js">>) /\ a.base = ParentDir(reverse[Nil])
  /\ \E m \in 1..Len(recs) : reverse[m] = StdinURL


(***************************************************************************)
(* Properties of the exported names of a factory module                    *)
(***************************************************************************)
\* the body of record m finishes in runtime r in this step, with success
FinishesBody(r, m) ==
  /\ stack[r] # <<>>
  /\ Len(stack'[r]) = Len(stack[r])
  /\ stack[r][Len(stack[r])].m = m
  /\ stack[r][Len(stack[r])].phase = "body"
  /\ stack'[r][Len(stack[r])].phase = "ret"
  /\ stack'[r][Len(stack[r])].path = "eval"
  /\ (m \in DOMAIN caps'[r] => caps'[r][m].st # "rejected")

\* the keys of the exports the instance of record m in runtime r ends with
FinalKeys(r, m) == DOMAIN objs'[modules'[r][m].exports]

\* C20: the exported names of a factory module record are set exactly once,
\* when a body of the record first finishes with success, to the keys of
\* that run's final exports; they never change afterwards, whatever keys a
\* later evaluation in another runtime ends with, and a body that fails
\* does not set them
C20_ExportedNamesOnce ==
  /\ [](\A m \in 1..Len(recs) :
          (recs[m].kind = "cjs" /\ ~recs[m].once) => recs[m].exportedNames = <<>>)
  /\ [][\A m \in 1..Len(recs) : recs[m].kind = "cjs" =>
          /\ recs[m].once =>
                recs'[m].once /\ recs'[m].exportedNames = recs[m].exportedNames
          /\ (\E r \in Runtimes : FinishesBody(r, m)) => recs'[m].once
          /\ (~recs[m].once /\ recs'[m].once) =>
                \E r \in Runtimes :
                  /\ FinishesBody(r, m)
                  /\ Elements(recs'[m].exportedNames) = FinalKeys(r, m)
                  /\ EachOnce(recs'[m].exportedNames)]_vars

\* a record whose names were set by one runtime was evaluated by another
\* that ended with different keys
C20_Witness ==
  \E m \in 1..Len(recs) : \E r \in Runtimes :
    /\ recs[m].kind = "cjs" /\ recs[m].once
    /\ m \in DOMAIN caps[r] /\ caps[r][m].st = "fulfilled"
    /\ DOMAIN objs[modules[r][m].exports] # Elements(recs[m].exportedNames)
    /\ \E n \in 1..Len(recs) : \E q \in Runtimes :
         /\ recs[n].kind = "cjs" /\ ~recs[n].once
         /\ n \in DOMAIN caps[q] /\ caps[q][n].st = "rejected"


(***************************************************************************)
(* Properties of the cache and the reverse map                             *)
(***************************************************************************)
\* the cache key a logged resolve call asked for, <<>> if it had none
CacheKeyOf(a) == IF IsBuiltin(a.arg) THEN a.arg ELSE a.key

\* every entry the cache holds stays as it is in this step
EntriesKept ==
  \A k \in DOMAIN cache : k \in DOMAIN cache' /\ cache'[k] = cache[k]

\* every resolve call returned the outcome the cache holds under its key
HitsUnchanged ==
  \A a \in log :
    CacheKeyOf(a) \in DOMAIN cache =>
      a.mod = cache[CacheKeyOf(a)].mod /\ a.err = cache[CacheKeyOf(a)].err

\* every record stored under a Locator has the reverse-map entry record -> Locator
RecordsReversed ==
  \A k \in DOMAIN cache :
    (cache[k].mod # Nil /\ recs[cache[k].mod].kind \in {"cjs", "esm"}) =>
      /\ cache[k].mod \in DOMAIN reverse
      /\ URLString(reverse[cache[k].mod]) = k

\* C21: every entry of the cache is write-once (no later call replaces or
\* removes it, and every hit returns it unchanged), every record stored
\* under a Locator L has the reverse-map entry record -> L, and the reverse
\* map has no entry for a key that is not a successfully created record
C21_WriteOnceAndReversed ==
  /\ [][EntriesKept]_vars
  /\ [](HitsUnchanged /\ RecordsReversed)
  /\ [](\A ref \in DOMAIN reverse : ref \in 1..Len(recs))

\* what the code does: the claim holds but for the nil key, which the
\* reverse map gets when the construction of a record fails, with the
\* Locator of the file that failed last
C21_WriteOnceButNilKey ==
  /\ [][EntriesKept]_vars
  /\ [](HitsUnchanged /\ RecordsReversed)
  /\ [](\A ref \in DOMAIN reverse :
          \/ ref \in 1..Len(recs)
          \/ /\ ref = Nil
             /\ cache[URLString(reverse[Nil])].mod = Nil
             /\ cache[URLString(reverse[Nil])].err.kind \in {"compile", "ast"})

\* a file failed to compile: the cache holds its error and the reverse map
\* an entry for it under the nil key, beside the entry of a record
C21_Witness ==
  /\ Nil \in DOMAIN reverse
  /\ cache[URLString(reverse[Nil])].err.kind = "compile"
  /\ \E a \in log : a.key = URLString(reverse[Nil]) /\ a.mod = Nil
  /\ \E m \in 1..Len(recs) : m \in DOMAIN reverse /\ cache[URLString(reverse[m])].mod = m


(***************************************************************************)
(* Properties of the exported names of a conforming host module            *)
(***************************************************************************)
\* the conforming host module records that have been instantiated
InstantiatedHost ==
  { m \in 1..Len(recs) :
      recs[m].kind = "goModule" /\ \E r \in Runtimes : m \in DOMAIN modules[r] }

\* the names of the record are the same after this step
NamesKept ==
  \A m \in InstantiatedHost : GetExportedNames(World, m).names = recs'[m].exportedNames

\* C22: after the first instantiation of a conforming host module record,
\* GetExportedNames returns exactly the keys of its Named mapping, each
\* once and no other entry, the empty string included, and the list stays
\* the same for every later instantiation in any runtime
C22_NamesAreNamedKeys ==
  /\ [](\A m \in InstantiatedHost :
          /\ GetExportedNames(World, m).panic = ""
          /\ Elements(GetExportedNames(World, m).names) = DOMAIN ExportsOf(m).Named
          /\ EachOnce(GetExportedNames(World, m).names)
          /\ "" \notin Elements(GetExportedNames(World, m).names))
  /\ [][NamesKept]_vars

\* what the code does: the list starts with as many empty strings as Named
\* has keys, followed by the keys, each once; it stays the same afterwards
C22_NamesAfterBlanks ==
  /\ [](\A m \in InstantiatedHost :
          LET names == GetExportedNames(World, m).names
              n == Cardinality(DOMAIN ExportsOf(m).Named) IN
          /\ GetExportedNames(World, m).panic = ""
          /\ Len(names) = 2 * n
          /\ \A i \in 1..n : names[i] = ""
          /\ { names[i] : i \in (n + 1)..(2 * n) } = DOMAIN ExportsOf(m).Named)
  /\ [][NamesKept]_vars

\* the host module k6 was instantiated in both runtimes, and its names hold
\* the empty string
C22_Witness ==
  \E m \in InstantiatedHost :
    /\ \A r \in Runtimes : m \in DOMAIN modules[r]
    /\ ExportsOf(m).Named # EmptyMap
    /\ "" \in Elements(GetExportedNames(World, m).names)
    /\ DOMAIN ExportsOf(m).Named \subseteq Elements(GetExportedNames(World, m).names)

====
